---------------------------- MODULE Spec2Model ----------------------------
(***************************************************************************)
(* Model of chinta/src/daemon.cpp: main() daemonizes (fork, setsid, chdir, *)
(* close of the three standard descriptors), opens syslog, registers       *)
(* signal_handler for SIGTERM and SIGINT and loops forever writing a       *)
(* heartbeat record and sleeping.  signal_handler runs asynchronously, on  *)
(* top of whatever main (or an earlier handler invocation) was doing.      *)
(*                                                                         *)
(* Time is discrete.  Computation steps are instantaneous; time passes     *)
(* only while the daemon is suspended (in sleep, or blocked on the syslog  *)
(* lock).                                                                  *)
(***************************************************************************)
EXTENDS Integers, Sequences, FiniteSets

VARIABLES
    pc,         \* pc[p]: position of process p inside main()
    pstate,     \* pstate[p]: "absent", "running", "exited" or "killed"
    exitStatus, \* exitStatus[p]: {} until p calls exit(), then {its argument}
    exitCtx,    \* exitCtx[p]: context that called exit(): "none", "main", "handler"
    killedBy,   \* {} or {the signal whose default action terminated the child}
    session,    \* session of the continuation: "inherited" or "new"
    ctty,       \* TRUE while the continuation has a controlling terminal
    cwd,        \* working directory of the continuation
    fds,        \* fds[fd]: what descriptor fd of the continuation refers to
    calls,      \* daemonization calls made so far, in order, with their outcome
    sink,       \* syslog connection: "unopened", "open" or "closed"
    opens,      \* every opening of the sink: who opened it and how
    closes,     \* every closing of an open sink: who closed it and when
    log,        \* records written to the sink, in order
    lockOwner,  \* {} when the syslog lock is free, else {0} for main, {k} for handler frame k
    disposition,\* disposition[s]: "SIG_DFL" or "signal_handler"
    hstack,     \* running signal_handler invocations, innermost last
    delivered,  \* every signal delivered to the child, with time and place
    now,        \* current time
    wakeAt,     \* time at which the current sleep() returns
    http        \* the HttpServer instance: lifecycle phase, endpoint, route registry

vars == << pc, pstate, exitStatus, exitCtx, killedBy, session, ctty, cwd, fds,
           calls, sink, opens, closes, log, lockOwner, disposition, hstack,
           delivered, now, wakeAt, http >>

-----------------------------------------------------------------------------
(* Bounds of the model *)

MaxSignals == 2

MaxRoutes == 2

MaxStops == 2

MaxTime == 11

-----------------------------------------------------------------------------
(* Program constants *)

EXIT_SUCCESS == 0

EXIT_FAILURE == 1

SIGINT == 2

SIGTERM == 15

SleepSeconds == 5

HandlerExitCode == 0

STDIN_FILENO == 0

STDOUT_FILENO == 1

STDERR_FILENO == 2

Procs == {"parent", "child"}

TermSignals == {SIGTERM, SIGINT}

(* Values of signum other than SIGTERM and SIGINT (SIGHUP, SIGUSR1) *)
OtherSignals == {1, 10}

StdFds == {STDIN_FILENO, STDOUT_FILENO, STDERR_FILENO}

StdName(fd) ==
    CASE fd = STDIN_FILENO  -> "stdin"
      [] fd = STDOUT_FILENO -> "stdout"
      [] fd = STDERR_FILENO -> "stderr"

InheritedStreams == {"stdin", "stdout", "stderr"}

LaunchDirs == {"/", "/srv"}

ChdirTarget == "/"

C9_Mutant_LoopCond == now < SleepSeconds

(* while (true): the condition of the service loop *)
LoopCond == TRUE

C19_Mutant_HandlerActs(signum) == TRUE

(* signal_handler acts only on SIGTERM and SIGINT *)
HandlerActs(signum) == signum = SIGTERM \/ signum = SIGINT

C4_Mutant_ExitCodeOnFailure(step) ==
    CASE step = "fork"   -> EXIT_FAILURE
      [] step = "setsid" -> EXIT_FAILURE
      [] step = "chdir"  -> EXIT_SUCCESS

(* The argument of exit() on the failure branch of each checked step *)
ExitCodeOnFailure(step) ==
    CASE step = "fork"   -> EXIT_FAILURE
      [] step = "setsid" -> EXIT_FAILURE
      [] step = "chdir"  -> EXIT_FAILURE

CheckedSteps == {"fork", "setsid", "chdir"}

-----------------------------------------------------------------------------
(* HttpServer (lib/http/include/service/server.hpp declares it; its        *)
(* behaviour is that of the RoutableService of the specification)          *)

Paths == {"/health", "/missing", ""}

Methods == {"GET", "POST", "BREW"}

RecognizedMethods == {"GET", "POST"}

RouteHandlers == {"h200", "h201"}

(* The well-formed route keys: non-empty path, recognized method *)
RouteKeys == (Paths \ {""}) \X RecognizedMethods

RequestKeys == Paths \X Methods

NoResponse == [status |-> "none", by |-> "none"]

NotFound == [status |-> "not_found", by |-> "none"]

HandlerResponse(h) == [status |-> "ok", by |-> h]

HttpInit ==
    [phase |-> "constructed", hookDone |-> FALSE, endpoint |-> "none",
     registry |-> [k \in RouteKeys |-> "none"], regLog |-> << >>,
     error |-> "none", lastOp |-> "none", request |-> {},
     response |-> NoResponse, stops |-> 0, listenerCloses |-> 0]

C15_Mutant_Dispatch(reg, key) ==
    IF \E k \in RouteKeys : k[1] = key[1] /\ reg[k] # "none"
    THEN HandlerResponse(reg[CHOOSE k \in RouteKeys : k[1] = key[1] /\ reg[k] # "none"])
    ELSE NotFound

(* Lookup by exact (path, method) key; an unmatched key is "not found" *)
Dispatch(reg, key) ==
    IF key \in RouteKeys /\ reg[key] # "none"
    THEN HandlerResponse(reg[key])
    ELSE NotFound

(* The registry is frozen once the route-setup hook of start() has returned *)
Frozen(h) == h.phase \notin {"constructed", "setup"}

C13_Mutant_AddRouteResult(h, path, method, handler) ==
    IF path = "" \/ method \notin RecognizedMethods
    THEN [h EXCEPT !.error = "ConfigurationError", !.lastOp = "add_route"]
    ELSE [h EXCEPT !.registry[<< path, method >>] = handler,
                   !.regLog = Append(@, [key |-> << path, method >>, handler |-> handler]),
                   !.error = "none", !.lastOp = "add_route"]

(* add_route / registerRoute: LifecycleError once frozen, ConfigurationError *)
(* for a malformed key, else the entry is added (replacing an earlier one)  *)
AddRouteResult(h, path, method, handler) ==
    IF Frozen(h)
    THEN [h EXCEPT !.error = "LifecycleError", !.lastOp = "add_route"]
    ELSE IF path = "" \/ method \notin RecognizedMethods
    THEN [h EXCEPT !.error = "ConfigurationError", !.lastOp = "add_route"]
    ELSE [h EXCEPT !.registry[<< path, method >>] = handler,
                   !.regLog = Append(@, [key |-> << path, method >>, handler |-> handler]),
                   !.error = "none", !.lastOp = "add_route"]

C14_Mutant_StopResult(h) ==
    [h EXCEPT !.endpoint = "closed", !.phase = "stopped",
              !.listenerCloses = @ + 1]

(* stop(): closes the endpoint when it is open, and is without effect otherwise *)
StopResult(h) ==
    IF h.endpoint = "open"
    THEN [h EXCEPT !.endpoint = "closed", !.phase = "stopped",
                   !.listenerCloses = @ + 1]
    ELSE h

-----------------------------------------------------------------------------
(* State *)

procVars == << pc, pstate, exitStatus, exitCtx >>

osVars == << session, ctty, cwd, fds, calls >>

logVars == << sink, opens, closes, log, lockOwner >>

sigVars == << disposition, hstack, delivered, killedBy >>

timeVars == << now, wakeAt >>

daemonVars == << procVars, osVars, logVars, sigVars, timeVars >>

Init ==
    /\ pc = [p \in Procs |-> IF p = "parent" THEN "fork" ELSE "none"]
    /\ pstate = [p \in Procs |-> IF p = "parent" THEN "running" ELSE "absent"]
    /\ exitStatus = [p \in Procs |-> {}]
    /\ exitCtx = [p \in Procs |-> "none"]
    /\ killedBy = {}
    /\ session = "inherited"
    /\ ctty = TRUE
    /\ cwd \in LaunchDirs
    /\ fds \in [StdFds -> InheritedStreams \cup {"closed"}]
    /\ \A fd \in StdFds : fds[fd] \in {StdName(fd), "closed"}
    /\ calls = << >>
    /\ sink = "unopened"
    /\ opens = << >>
    /\ closes = << >>
    /\ log = << >>
    /\ lockOwner = {}
    /\ disposition = [s \in TermSignals |-> "SIG_DFL"]
    /\ hstack = << >>
    /\ delivered = << >>
    /\ now = 0
    /\ wakeAt = 0
    /\ http = HttpInit

(* main of process p is running: p is alive and, for the daemon, no        *)
(* signal_handler invocation is on top of it                                *)
MainRuns(p) == pstate[p] = "running" /\ (p = "child" => hstack = << >>)

Call(name, arg, ok) == [name |-> name, arg |-> arg, ok |-> ok]

(* exit(code) called by process p from context ctx *)
Exit(p, code, ctx) ==
    /\ pstate' = [pstate EXCEPT ![p] = "exited"]
    /\ exitStatus' = [exitStatus EXCEPT ![p] = {code}]
    /\ exitCtx' = [exitCtx EXCEPT ![p] = ctx]
    /\ pc' = pc

Goto(p, label) ==
    /\ pc' = [pc EXCEPT ![p] = label]
    /\ UNCHANGED << pstate, exitStatus, exitCtx >>

-----------------------------------------------------------------------------
(* Foreground -> Detached: main, lines 17-43 *)

Fork ==
    /\ MainRuns("parent")
    /\ pc["parent"] = "fork"
    /\ \/ /\ calls' = Append(calls, Call("fork", {}, FALSE))
          /\ Exit("parent", ExitCodeOnFailure("fork"), "main")
       \/ /\ calls' = Append(calls, Call("fork", {}, TRUE))
          /\ pc' = [pc EXCEPT !["parent"] = "parent_exit", !["child"] = "setsid"]
          /\ pstate' = [pstate EXCEPT !["child"] = "running"]
          /\ UNCHANGED << exitStatus, exitCtx >>
    /\ UNCHANGED << session, ctty, cwd, fds, logVars, sigVars, timeVars >>
    /\ UNCHANGED http

C16_Mutant_ParentExit ==
    /\ MainRuns("parent")
    /\ pc["parent"] = "parent_exit"
    /\ Goto("parent", "setsid")
    /\ UNCHANGED << osVars, logVars, sigVars, timeVars >>
    /\ UNCHANGED http

ParentExit ==
    /\ MainRuns("parent")
    /\ pc["parent"] = "parent_exit"
    /\ Exit("parent", EXIT_SUCCESS, "main")
    /\ UNCHANGED << osVars, logVars, sigVars, timeVars >>
    /\ UNCHANGED http

C2_Mutant_Setsid ==
    /\ MainRuns("child")
    /\ pc["child"] = "setsid"
    /\ Goto("child", "chdir")
    /\ UNCHANGED << osVars, logVars, sigVars, timeVars >>
    /\ UNCHANGED http

Setsid ==
    /\ MainRuns("child")
    /\ pc["child"] = "setsid"
    /\ \/ /\ calls' = Append(calls, Call("setsid", {}, FALSE))
          /\ Exit("child", ExitCodeOnFailure("setsid"), "main")
          /\ UNCHANGED << session, ctty >>
       \/ /\ calls' = Append(calls, Call("setsid", {}, TRUE))
          /\ session' = "new"
          /\ ctty' = FALSE
          /\ Goto("child", "chdir")
    /\ UNCHANGED << cwd, fds, logVars, sigVars, timeVars >>
    /\ UNCHANGED http

C3_Mutant_Chdir ==
    /\ MainRuns("child")
    /\ pc["child"] = "chdir"
    /\ \/ /\ calls' = Append(calls, Call("chdir", {}, FALSE))
          /\ cwd' = cwd
       \/ /\ calls' = Append(calls, Call("chdir", {}, TRUE))
          /\ cwd' = ChdirTarget
    /\ Goto("child", "close_stdin")
    /\ UNCHANGED << session, ctty, fds, logVars, sigVars, timeVars >>
    /\ UNCHANGED http

Chdir ==
    /\ MainRuns("child")
    /\ pc["child"] = "chdir"
    /\ \/ /\ calls' = Append(calls, Call("chdir", {}, FALSE))
          /\ Exit("child", ExitCodeOnFailure("chdir"), "main")
          /\ cwd' = cwd
       \/ /\ calls' = Append(calls, Call("chdir", {}, TRUE))
          /\ cwd' = ChdirTarget
          /\ Goto("child", "close_stdin")
    /\ UNCHANGED << session, ctty, fds, logVars, sigVars, timeVars >>
    /\ UNCHANGED http

ClosePc(fd) ==
    CASE fd = STDIN_FILENO  -> "close_stdin"
      [] fd = STDOUT_FILENO -> "close_stdout"
      [] fd = STDERR_FILENO -> "close_stderr"

C18_Mutant_AfterClose(fd) ==
    CASE fd = STDIN_FILENO  -> "close_stdout"
      [] fd = STDOUT_FILENO -> "close_stderr"
      [] fd = STDERR_FILENO -> "signal_term"

AfterClose(fd) ==
    CASE fd = STDIN_FILENO  -> "close_stdout"
      [] fd = STDOUT_FILENO -> "close_stderr"
      [] fd = STDERR_FILENO -> "openlog"

(* close(fd) fails (EBADF) when fd is not open, and releases it otherwise; *)
(* main ignores the result                                                 *)
CloseStd(fd) ==
    /\ MainRuns("child")
    /\ pc["child"] = ClosePc(fd)
    /\ calls' = Append(calls, Call("close", {fd}, fds[fd] # "closed"))
    /\ fds' = [fds EXCEPT ![fd] = "closed"]
    /\ Goto("child", AfterClose(fd))
    /\ UNCHANGED << session, ctty, cwd, logVars, sigVars, timeVars >>
    /\ UNCHANGED http

-----------------------------------------------------------------------------
(* The logging sink: openlog, syslog, closelog of the C library *)

(* A new socket takes the lowest descriptor that is not open *)
WithSocket(f) ==
    IF \E fd \in StdFds : f[fd] = "closed"
    THEN LET low == CHOOSE fd \in StdFds :
                        /\ f[fd] = "closed"
                        /\ \A g \in StdFds : f[g] = "closed" => fd <= g
         IN  [f EXCEPT ![low] = "syslog"]
    ELSE f

WithoutSocket(f) == [fd \in StdFds |-> IF f[fd] = "syslog" THEN "closed" ELSE f[fd]]

Record(kind, sig, ctx) == [kind |-> kind, sig |-> sig, time |-> now, ctx |-> ctx]

(* syslog() writes one record; when the sink is not open it opens it first *)
SinkWrite(rec) ==
    /\ log' = Append(log, rec)
    /\ IF sink = "open"
       THEN UNCHANGED << sink, opens, fds >>
       ELSE /\ sink' = "open"
            /\ opens' = Append(opens, [ctx |-> rec.ctx, how |-> "syslog", time |-> now])
            /\ fds' = WithSocket(fds)

(* closelog() closes the sink when it is open and does nothing otherwise *)
SinkClose(ctx) ==
    IF sink = "open"
    THEN /\ sink' = "closed"
         /\ closes' = Append(closes, [ctx |-> ctx, time |-> now])
         /\ fds' = WithoutSocket(fds)
    ELSE UNCHANGED << sink, closes, fds >>

-----------------------------------------------------------------------------
(* Detached: main, lines 45-58 *)

(* openlog("my_daemon", LOG_PID | LOG_NDELAY, LOG_DAEMON): LOG_NDELAY opens *)
(* the connection at once                                                   *)
Openlog ==
    /\ MainRuns("child")
    /\ pc["child"] = "openlog"
    /\ sink' = "open"
    /\ opens' = Append(opens, [ctx |-> "main", how |-> "openlog", time |-> now])
    /\ fds' = WithSocket(fds)
    /\ Goto("child", "syslog_start")
    /\ UNCHANGED << session, ctty, cwd, calls, closes, log, lockOwner, sigVars, timeVars >>
    /\ UNCHANGED http

SyslogPcs == {"syslog_start", "loop_syslog"}

InSyslog(label) ==
    CASE label = "syslog_start" -> "syslog_start_w"
      [] label = "loop_syslog"  -> "loop_syslog_w"

RecordKind(label) ==
    CASE label = "syslog_start_w" -> "start"
      [] label = "loop_syslog_w"  -> "heartbeat"

AfterSyslog(label) ==
    CASE label = "syslog_start_w" -> "signal_term"
      [] label = "loop_syslog_w"  -> "sleep"

(* main enters syslog(): it takes the syslog lock *)
SyslogEnter ==
    /\ MainRuns("child")
    /\ pc["child"] \in SyslogPcs
    /\ lockOwner = {}
    /\ lockOwner' = {0}
    /\ Goto("child", InSyslog(pc["child"]))
    /\ UNCHANGED << osVars, sink, opens, closes, log, sigVars, timeVars >>
    /\ UNCHANGED http

(* main, inside syslog(), writes the record and releases the lock *)
SyslogWrite ==
    /\ MainRuns("child")
    /\ pc["child"] \in { InSyslog(l) : l \in SyslogPcs }
    /\ SinkWrite(Record(RecordKind(pc["child"]), {}, "main"))
    /\ lockOwner' = lockOwner \ {0}
    /\ Goto("child", AfterSyslog(pc["child"]))
    /\ UNCHANGED << session, ctty, cwd, calls, closes, sigVars, timeVars >>
    /\ UNCHANGED http

SignalPc(s) == IF s = SIGTERM THEN "signal_term" ELSE "signal_int"

AfterSignal(s) == IF s = SIGTERM THEN "signal_int" ELSE "loop_syslog"

(* signal(s, signal_handler) *)
Signal(s) ==
    /\ MainRuns("child")
    /\ pc["child"] = SignalPc(s)
    /\ disposition' = [disposition EXCEPT ![s] = "signal_handler"]
    /\ Goto("child", AfterSignal(s))
    /\ UNCHANGED << osVars, logVars, hstack, delivered, killedBy, timeVars >>
    /\ UNCHANGED http

C10_Mutant_SleepBegin ==
    /\ MainRuns("child")
    /\ pc["child"] = "sleep"
    /\ wakeAt' = now
    /\ Goto("child", "sleeping")
    /\ UNCHANGED << osVars, logVars, sigVars, now >>
    /\ UNCHANGED http

(* sleep(5) is called *)
SleepBegin ==
    /\ MainRuns("child")
    /\ pc["child"] = "sleep"
    /\ wakeAt' = now + SleepSeconds
    /\ Goto("child", "sleeping")
    /\ UNCHANGED << osVars, logVars, sigVars, now >>
    /\ UNCHANGED http

(* sleep(5) returns once the interval has elapsed, and the loop condition  *)
(* is evaluated.  "after_loop" is the closelog() of line 60, which no      *)
(* execution reaches.                                                      *)
SleepReturn ==
    /\ MainRuns("child")
    /\ pc["child"] = "sleeping"
    /\ now >= wakeAt
    /\ Goto("child", IF LoopCond THEN "loop_syslog" ELSE "after_loop")
    /\ UNCHANGED << osVars, logVars, sigVars, timeVars >>
    /\ UNCHANGED http

-----------------------------------------------------------------------------
(* Signals *)

ForegroundPcs == {"setsid", "chdir", "close_stdin", "close_stdout", "close_stderr"}

LoopPcs == {"loop_syslog", "loop_syslog_w", "sleep", "sleeping"}

DetachedPcs == {"openlog", "syslog_start", "syslog_start_w", "signal_term",
                "signal_int"} \cup LoopPcs

Top == hstack[Len(hstack)]

HandlerRuns == pstate["child"] = "running" /\ hstack # << >>

SetTop(label) == hstack' = [hstack EXCEPT ![Len(hstack)].hpc = label]

(* signal() installs the handler with the signal itself blocked while the  *)
(* handler runs; the other signal is not blocked                           *)
Blocked(s) == \E i \in 1..Len(hstack) : hstack[i].sig = s

(* The process state of the specification, derived from the program state *)
ProcessState ==
    IF pstate["child"] \in {"exited", "killed"} \/ hstack # << >> THEN "Terminating"
    ELSE IF pstate["child"] = "running" /\ pc["child"] \in DetachedPcs THEN "Detached"
    ELSE "Foreground"

(* SIGINT or SIGTERM is delivered to the daemon: the default action        *)
(* terminates it, an installed signal_handler is invoked on top of         *)
(* whatever is running                                                     *)
DeliverSignal(s) ==
    /\ pstate["child"] = "running"
    /\ Len(delivered) < MaxSignals
    /\ ~Blocked(s)
    /\ delivered' = Append(delivered,
                           [sig |-> s, time |-> now, at |-> pc["child"],
                            state |-> ProcessState,
                            handled |-> disposition[s] = "signal_handler"])
    /\ IF disposition[s] = "signal_handler"
       THEN /\ hstack' = Append(hstack, [sig |-> s, hpc |-> "entry"])
            /\ UNCHANGED << pstate, killedBy >>
       ELSE /\ pstate' = [pstate EXCEPT !["child"] = "killed"]
            /\ killedBy' = {s}
            /\ UNCHANGED hstack
    /\ UNCHANGED << pc, exitStatus, exitCtx, osVars, logVars, disposition, timeVars >>
    /\ UNCHANGED http

-----------------------------------------------------------------------------
(* signal_handler, lines 7-13.  syslog() and closelog() take the          *)
(* non-recursive syslog lock.  Calling them while the interrupted context  *)
(* holds that lock is undefined: the handler either waits for ever for the *)
(* lock, or (a library without the lock) goes on.                          *)

(* line 8 and the entry of syslog() on line 9; for any other signal the    *)
(* handler returns at once                                                 *)
HandlerSyslogEnter ==
    /\ HandlerRuns
    /\ Top.hpc = "entry"
    /\ IF HandlerActs(Top.sig)
       THEN \/ /\ lockOwner = {}
               /\ lockOwner' = {Len(hstack)}
               /\ SetTop("syslog_w")
            \/ /\ lockOwner # {}
               /\ lockOwner' = lockOwner
               /\ SetTop("blocked")
            \/ /\ lockOwner # {}
               /\ lockOwner' = lockOwner
               /\ SetTop("syslog_w")
       ELSE /\ hstack' = SubSeq(hstack, 1, Len(hstack) - 1)
            /\ lockOwner' = lockOwner
    /\ UNCHANGED << procVars, osVars, sink, opens, closes, log, disposition,
                    delivered, killedBy, timeVars >>
    /\ UNCHANGED http

(* line 9: the record is written and the lock, if taken, released *)
HandlerSyslogWrite ==
    /\ HandlerRuns
    /\ Top.hpc = "syslog_w"
    /\ SinkWrite(Record("signal", {Top.sig}, "handler"))
    /\ lockOwner' = lockOwner \ {Len(hstack)}
    /\ SetTop("closelog")
    /\ UNCHANGED << procVars, session, ctty, cwd, calls, closes, disposition,
                    delivered, killedBy, timeVars >>
    /\ UNCHANGED http

(* line 10 *)
HandlerCloselog ==
    /\ HandlerRuns
    /\ Top.hpc = "closelog"
    /\ \/ /\ lockOwner = {}
          /\ SinkClose("handler")
          /\ SetTop("exit")
       \/ /\ lockOwner # {}
          /\ UNCHANGED << sink, closes, fds >>
          /\ SetTop("blocked")
       \/ /\ lockOwner # {}
          /\ SinkClose("handler")
          /\ SetTop("exit")
    /\ UNCHANGED << procVars, session, ctty, cwd, calls, opens, log, lockOwner,
                    disposition, delivered, killedBy, timeVars >>
    /\ UNCHANGED http

(* line 11 *)
HandlerExit ==
    /\ HandlerRuns
    /\ Top.hpc = "exit"
    /\ Exit("child", HandlerExitCode, "handler")
    /\ UNCHANGED << osVars, logVars, sigVars, timeVars >>
    /\ UNCHANGED http

-----------------------------------------------------------------------------
(* Time passes while the daemon is suspended: in sleep(), or waiting for   *)
(* the syslog lock                                                         *)

Suspended ==
    /\ pstate["child"] = "running"
    /\ \/ hstack = << >> /\ pc["child"] = "sleeping" /\ now < wakeAt
       \/ hstack # << >> /\ Top.hpc = "blocked"

Tick ==
    /\ Suspended
    /\ now < MaxTime
    /\ now' = now + 1
    /\ UNCHANGED << procVars, osVars, logVars, sigVars, wakeAt >>
    /\ UNCHANGED http

-----------------------------------------------------------------------------

Next ==
    \/ Fork
    \/ ParentExit
    \/ Setsid
    \/ Chdir
    \/ \E fd \in StdFds : CloseStd(fd)
    \/ Openlog
    \/ SyslogEnter
    \/ SyslogWrite
    \/ \E s \in TermSignals : Signal(s)
    \/ SleepBegin
    \/ SleepReturn
    \/ \E s \in TermSignals : DeliverSignal(s)
    \/ HandlerSyslogEnter
    \/ HandlerSyslogWrite
    \/ HandlerCloselog
    \/ HandlerExit
    \/ Tick

Spec == Init /\ [][Next]_vars

-----------------------------------------------------------------------------
(* signal_handler called with a signum other than SIGTERM and SIGINT.      *)
(* main installs it for those two only, so the call is made here directly, *)
(* on top of whatever the daemon is doing.                                 *)

InvokeHandler(s) ==
    /\ pstate["child"] = "running"
    /\ Len(delivered) < MaxSignals
    /\ ~Blocked(s)
    /\ delivered' = Append(delivered,
                           [sig |-> s, time |-> now, at |-> pc["child"],
                            state |-> ProcessState, handled |-> TRUE])
    /\ hstack' = Append(hstack, [sig |-> s, hpc |-> "entry"])
    /\ UNCHANGED << procVars, osVars, logVars, disposition, killedBy, timeVars >>
    /\ UNCHANGED http

NextAnySignal ==
    \/ Next
    \/ \E s \in OtherSignals : InvokeHandler(s)

(* The daemon launched from a terminal, with its three streams open *)
InitAnySignal ==
    /\ Init
    /\ cwd = "/srv"
    /\ \A fd \in StdFds : fds[fd] = StdName(fd)

SpecAnySignal == InitAnySignal /\ [][NextAnySignal]_vars

-----------------------------------------------------------------------------
(* HttpServer operations.  Callers may call add_route, stop and send       *)
(* requests at any time, also while start() is in progress.                *)

C12_Mutant_HttpStart ==
    /\ http.phase = "constructed"
    /\ http' = [http EXCEPT !.phase = "setup", !.endpoint = "open", !.lastOp = "start"]
    /\ UNCHANGED daemonVars

(* start() is called: it invokes the setup_routes() hook *)
HttpStart ==
    /\ http.phase = "constructed"
    /\ http' = [http EXCEPT !.phase = "setup", !.lastOp = "start"]
    /\ UNCHANGED daemonVars

(* add_route(path, method, handler), from the hook or from anywhere else *)
HttpAddRoute(path, method, handler) ==
    /\ Len(AddRouteResult(http, path, method, handler).regLog) <= MaxRoutes
    /\ http' = AddRouteResult(http, path, method, handler)
    /\ UNCHANGED daemonVars

(* setup_routes() returns to start() *)
HttpHookReturn ==
    /\ http.phase = "setup"
    /\ http' = [http EXCEPT !.phase = "binding", !.hookDone = TRUE]
    /\ UNCHANGED daemonVars

(* start() opens the listening endpoint, or fails with BindError *)
HttpOpen ==
    /\ http.phase = "binding"
    /\ \/ http' = [http EXCEPT !.phase = "running", !.endpoint = "open"]
       \/ http' = [http EXCEPT !.phase = "failed", !.error = "BindError"]
    /\ UNCHANGED daemonVars

(* stop() *)
HttpStop ==
    /\ http.stops < MaxStops
    /\ http' = [StopResult(http) EXCEPT !.stops = @ + 1, !.lastOp = "stop"]
    /\ UNCHANGED daemonVars

(* An inbound request is dispatched by the open endpoint *)
HttpRequest(path, method) ==
    /\ http.endpoint = "open"
    /\ http' = [http EXCEPT !.request = {<< path, method >>},
                            !.response = Dispatch(http.registry, << path, method >>),
                            !.lastOp = "request"]
    /\ UNCHANGED daemonVars

HttpNext ==
    \/ HttpStart
    \/ \E path \in Paths, method \in Methods, handler \in RouteHandlers :
          HttpAddRoute(path, method, handler)
    \/ HttpHookReturn
    \/ HttpOpen
    \/ HttpStop
    \/ \E path \in Paths, method \in Methods : HttpRequest(path, method)

SpecHttp == InitAnySignal /\ [][HttpNext]_vars

-----------------------------------------------------------------------------
(* Properties *)

Caller(name) == IF name = "fork" THEN "parent" ELSE "child"

Terminated(p) == pstate[p] \in {"exited", "killed"}

Kinds(l) == [i \in 1..Len(l) |-> l[i].kind]

CallsMade == [i \in 1..Len(calls) |-> << calls[i].name, calls[i].arg >>]

DaemonizationOrder ==
    << << "fork", {} >>, << "setsid", {} >>, << "chdir", {} >>,
       << "close", {STDIN_FILENO} >>, << "close", {STDOUT_FILENO} >>,
       << "close", {STDERR_FILENO} >> >>

(* C1: every SIGINT or SIGTERM delivered while the daemon is Detached      *)
(* (from the closing of the standard streams on, the window before the     *)
(* handlers are registered included) makes the process exit with status 0  *)
(* within one heartbeat interval of the delivery.                          *)
C1_Claim ==
    \A i \in 1..Len(delivered) :
        delivered[i].state = "Detached" =>
            /\ pstate["child"] # "killed"
            /\ pstate["child"] = "exited" => exitStatus["child"] = {0}
            /\ now - delivered[i].time <= SleepSeconds

C3_Claim ==
    \A i \in 1..Len(calls) :
        ~calls[i].ok =>
            /\ i = Len(calls)
            /\ pc["child"] \notin DetachedPcs
            /\ pstate[Caller(calls[i].name)] = "exited"
            /\ exitStatus[Caller(calls[i].name)] \notin { {}, {0} }

(* C3, amended: when fork, setsid or chdir fails, no later step is         *)
(* executed, the step is not retried, the service loop is never entered    *)
(* and the process has terminated with a non-zero exit status; a failing   *)
(* close of a standard stream is ignored, main goes on with the next step. *)
C3_Amended ==
    /\ \A i \in 1..Len(calls) :
          (calls[i].name \in CheckedSteps /\ ~calls[i].ok) =>
              /\ i = Len(calls)
              /\ \A j \in 1..Len(calls) : calls[j].name = calls[i].name => j = i
              /\ pc["child"] \notin DetachedPcs
              /\ pstate[Caller(calls[i].name)] = "exited"
              /\ exitCtx[Caller(calls[i].name)] = "main"
              /\ exitStatus[Caller(calls[i].name)] \notin { {}, {0} }
    /\ \A i \in 1..Len(calls) :
          (calls[i].name = "close" /\ ~calls[i].ok) =>
              /\ pc["child"] = AfterClose(CHOOSE fd \in calls[i].arg : TRUE)
                 \/ i < Len(calls)
                 \/ pc["child"] \in DetachedPcs
              /\ exitCtx["child"] # "main"

C3_Witness ==
    /\ Len(calls) = 3
    /\ calls[3].name = "chdir"
    /\ ~calls[3].ok
    /\ pstate["child"] = "exited"

(* C4, as claimed: a process that terminated because fork, setsid or chdir *)
(* failed has a non-zero exit status that differs from the status of the   *)
(* two other failures.                                                     *)
C4_Claim ==
    \A i \in 1..Len(calls) :
        (calls[i].name \in CheckedSteps /\ ~calls[i].ok) =>
            /\ exitStatus[Caller(calls[i].name)] \notin { {}, {0} }
            /\ \A other \in CheckedSteps \ {calls[i].name} :
                  exitStatus[Caller(calls[i].name)] # {ExitCodeOnFailure(other)}

(* C4, amended: a process that terminated because fork, setsid or chdir    *)
(* failed has the exit status EXIT_FAILURE, non-zero and the same for all  *)
(* three failures.                                                         *)
C4_Amended ==
    \A i \in 1..Len(calls) :
        (calls[i].name \in CheckedSteps /\ ~calls[i].ok) =>
            /\ exitStatus[Caller(calls[i].name)] = {EXIT_FAILURE}
            /\ exitStatus[Caller(calls[i].name)] # {0}
            /\ \A other \in CheckedSteps :
                  exitStatus[Caller(calls[i].name)] = {ExitCodeOnFailure(other)}

C4_Witness ==
    /\ Len(calls) = 2
    /\ calls[2].name = "setsid"
    /\ ~calls[2].ok
    /\ exitStatus["child"] = {EXIT_FAILURE}

(* C5: the signal handler only records the intent to stop; closing the    *)
(* logging sink and exiting the process are done by main, in the service   *)
(* loop, never inside the signal handler.                                  *)
C5_Claim ==
    /\ \A i \in 1..Len(closes) : closes[i].ctx = "main"
    /\ exitCtx["child"] # "handler"

(* C6: the signal handler takes no lock and never blocks, wherever in the  *)
(* service loop the signal is delivered, a logging call of the loop        *)
(* included.                                                               *)
C6_Claim ==
    /\ lockOwner \subseteq {0}
    /\ \A i \in 1..Len(hstack) : hstack[i].hpc # "blocked"

(* C7: in every execution that reaches Detached the logging sink is opened *)
(* exactly once and closed exactly once, under every interleaving of       *)
(* signal deliveries: it is never opened or closed a second time, and it   *)
(* has been opened once and closed once when the process has exited.       *)
C7_Claim ==
    /\ Len(opens) <= 1
    /\ Len(closes) <= 1
    /\ (pstate["child"] = "exited" /\ pc["child"] \in DetachedPcs) =>
           (Len(opens) = 1 /\ Len(closes) = 1)

IsLifecycleLog(k) ==
    /\ Len(k) >= 3
    /\ k[1] = "start"
    /\ \A i \in 2..(Len(k) - 2) : k[i] = "heartbeat"
    /\ k[Len(k) - 1] = "signal"
    /\ k[Len(k)] = "stop"

(* C8: every execution that ends by a termination signal has, when the     *)
(* process has exited, a log of one start record, zero or more heartbeat   *)
(* records, one signal-received record and one stop record.                *)
C8_Claim ==
    (pstate["child"] = "exited" /\ delivered # << >> /\ pc["child"] \in DetachedPcs) =>
        IsLifecycleLog(Kinds(log))

(* C9: once Detached, the daemon terminates only in response to SIGINT or  *)
(* SIGTERM: the code after the service loop is never reached, a daemon     *)
(* that has terminated was delivered a signal, and one to which no signal  *)
(* was delivered is still running; a daemon that called exit() did so with *)
(* status 0.                                                               *)
C9_OnlySignalsTerminate ==
    /\ pc["child"] # "after_loop"
    /\ pc["child"] \in DetachedPcs =>
          /\ Terminated("child") => delivered # << >>
          /\ delivered = << >> => pstate["child"] = "running"
          /\ pstate["child"] = "exited" =>
                /\ exitStatus["child"] = {0}
                /\ exitCtx["child"] = "handler"
          /\ pstate["child"] = "killed" => killedBy \subseteq TermSignals /\ killedBy # {}

C9_Witness ==
    /\ pstate["child"] = "exited"
    /\ pc["child"] = "sleeping"
    /\ exitStatus["child"] = {0}
    /\ Len(log) >= 4

(* C10: the service loop alternates one heartbeat record and one           *)
(* suspension of SleepSeconds, beginning with a heartbeat directly after   *)
(* the start record: two heartbeat records in a row are exactly one        *)
(* interval apart, and main is suspended only right after a heartbeat.     *)
C10_Alternation ==
    /\ Len(log) >= 1 => log[1].kind = "start"
    /\ Len(log) >= 2 => (log[2].kind = "heartbeat" \/ delivered # << >>)
    /\ \A i \in 1..(Len(log) - 1) :
          (log[i].kind = "heartbeat" /\ log[i + 1].kind = "heartbeat") =>
              log[i + 1].time - log[i].time = SleepSeconds
    /\ (pc["child"] = "sleeping" /\ hstack = << >> /\ pstate["child"] = "running") =>
          /\ log[Len(log)].kind = "heartbeat"
          /\ log[Len(log)].time = wakeAt - SleepSeconds
    /\ (pc["child"] \in {"loop_syslog", "loop_syslog_w"} /\ Len(log) >= 2) =>
          \A i \in 1..Len(log) :
              log[i].kind = "heartbeat" => now - log[i].time >= SleepSeconds

C10_Witness ==
    \E i \in 1..(Len(log) - 1) :
        /\ log[i].kind = "heartbeat"
        /\ log[i + 1].kind = "heartbeat"
        /\ log[i + 1].time = log[i].time + SleepSeconds

(* One step of the innermost running signal_handler invocation *)
HandlerStep ==
    \/ HandlerSyslogEnter
    \/ HandlerSyslogWrite
    \/ HandlerCloselog
    \/ HandlerExit

(* C11: Terminating is final: once a SIGINT or SIGTERM has begun to be     *)
(* handled, no further heartbeat record is written, main does not go on    *)
(* with the service loop, and the process exits: as long as it has not     *)
(* exited, the handler can take its next step towards exit(0).             *)
C11_Claim ==
    /\ \A i \in 1..Len(log) : \A j \in 1..Len(log) :
          (i < j /\ log[i].kind = "signal") => log[j].kind # "heartbeat"
    /\ (pstate["child"] = "running" /\ hstack # << >>) => ENABLED HandlerStep

(* C16: when fork succeeds the original process does nothing but exit with *)
(* status 0: it is never at one of the later statements of main, and once  *)
(* it has exited its status is EXIT_SUCCESS, set by main.                  *)
C16_ParentOnlyExits ==
    /\ pc["parent"] \in {"fork", "parent_exit"}
    /\ pc["parent"] = "parent_exit" =>
          /\ calls # << >>
          /\ calls[1] = Call("fork", {}, TRUE)
          /\ pstate["child"] # "absent"
          /\ pstate["parent"] \in {"running", "exited"}
          /\ pstate["parent"] = "exited" =>
                /\ exitStatus["parent"] = {0}
                /\ exitCtx["parent"] = "main"
    /\ (pstate["child"] = "absent" /\ pstate["parent"] = "exited") =>
          exitStatus["parent"] = {EXIT_FAILURE}

C16_Witness ==
    /\ pstate["parent"] = "exited"
    /\ exitStatus["parent"] = {0}
    /\ pstate["child"] = "running"
    /\ pc["child"] = "sleeping"

(* C17: once the logging sink has been closed no record is written to it,  *)
(* under every interleaving of signal deliveries.                          *)
C17_Claim == [][closes # << >> => log' = log]_vars

(* C18: the signal handlers are installed only after the sink is opened    *)
(* and the start record written: a handler is installed or running only    *)
(* with the sink opened and the start record first in the log, a           *)
(* signal-received record never precedes the start record, and no record   *)
(* is written while the process is in Foreground.                          *)
C18_HandlersAfterStart ==
    /\ \A s \in TermSignals :
          disposition[s] = "signal_handler" =>
              /\ opens # << >>
              /\ opens[1].how = "openlog"
              /\ log # << >>
              /\ log[1].kind = "start"
    /\ hstack # << >> => (sink # "unopened" /\ log # << >> /\ log[1].kind = "start")
    /\ \A i \in 1..Len(log) : log[i].kind = "signal" => (i > 1 /\ log[1].kind = "start")
    /\ (pstate["child"] = "absent" \/ pc["child"] \in ForegroundPcs) =>
          (log = << >> /\ opens = << >>)

C18_Witness ==
    /\ hstack # << >>
    /\ Len(log) >= 2
    /\ log[1].kind = "start"
    /\ log[Len(log)].kind = "signal"

(* C19: signal_handler called with a signal number other than SIGTERM or   *)
(* SIGINT returns without effect: its step removes its own invocation and  *)
(* changes nothing else: no record is written, the sink is not closed, the *)
(* process does not exit.                                                  *)
C19_OtherSignalNoEffect ==
    [][(/\ HandlerRuns
        /\ Top.hpc = "entry"
        /\ Top.sig \in OtherSignals
        /\ hstack' # hstack
        /\ Len(hstack') <= Len(hstack))
       => (/\ hstack' = SubSeq(hstack, 1, Len(hstack) - 1)
           /\ UNCHANGED << procVars, osVars, logVars, disposition, delivered,
                           killedBy, timeVars, http >>)]_vars

C19_Witness ==
    /\ hstack = << >>
    /\ pstate["child"] = "running"
    /\ pc["child"] = "sleeping"
    /\ \E i \in 1..Len(delivered) : delivered[i].sig \in OtherSignals

(* C12: start() runs the setup_routes() hook to completion before the     *)
(* listening endpoint is opened: whatever the callers do, the endpoint is  *)
(* never open, or has been open, while the hook has not returned.          *)
C12_HookBeforeOpen ==
    /\ http.endpoint # "none" => http.hookDone
    /\ http.phase = "running" => (http.endpoint = "open" /\ http.hookDone)
    /\ http.phase \in {"constructed", "setup"} => http.endpoint = "none"

C12_Witness ==
    /\ http.endpoint = "open"
    /\ http.hookDone
    /\ http.regLog # << >>

(* C13: add_route called while the service is running is rejected with a   *)
(* LifecycleError: the registry is left unchanged and the endpoint stays   *)
(* open and serving.                                                       *)
C13_FrozenRegistry ==
    [][(http.phase = "running" /\ http'.lastOp = "add_route" /\ http' # http)
       => (/\ http'.error = "LifecycleError"
           /\ http'.registry = http.registry
           /\ http'.regLog = http.regLog
           /\ http'.endpoint = "open"
           /\ http'.phase = "running")]_vars

C13_Witness ==
    /\ http.phase = "running"
    /\ http.endpoint = "open"
    /\ http.lastOp = "add_route"
    /\ http.error = "LifecycleError"
    /\ http.regLog # << >>

(* C14: stop() is idempotent: in every state of the service (never         *)
(* started, starting, running, stopped) a second stop() leaves what the    *)
(* first one left, stop() before start() changes nothing, and the endpoint *)
(* is closed at most once.                                                 *)
C14_StopIdempotent ==
    /\ StopResult(StopResult(http)) = StopResult(http)
    /\ http.phase = "constructed" => StopResult(http) = http
    /\ http.listenerCloses <= 1
    /\ http.endpoint = "closed" <=> http.phase = "stopped"

C14_Witness ==
    /\ http.stops >= 2
    /\ http.phase = "stopped"
    /\ http.listenerCloses = 1

(* The response the registrations made call for: that of the handler last  *)
(* registered under the key, "not found" when there is none                *)
ExpectedResponse(regs, key) ==
    IF \E i \in 1..Len(regs) : regs[i].key = key
    THEN LET last == CHOOSE i \in 1..Len(regs) :
                         /\ regs[i].key = key
                         /\ \A j \in 1..Len(regs) : regs[j].key = key => j <= i
         IN  HandlerResponse(regs[last].handler)
    ELSE NotFound

Permutations(n) ==
    { f \in [1..n -> 1..n] : \A i \in 1..n : \A j \in 1..n : f[i] = f[j] => i = j }

DistinctKeys(regs) ==
    \A i \in 1..Len(regs) : \A j \in 1..Len(regs) : regs[i].key = regs[j].key => i = j

(* C15: a request whose (path, method) equals a registered key gets that   *)
(* key's handler's response, any other request gets "not found"; no        *)
(* request faults; and for routes with distinct keys the outcome is the    *)
(* same for every order of registration.                                   *)
C15_Routing ==
    /\ \A key \in http.request : http.response = ExpectedResponse(http.regLog, key)
    /\ http.request = {} => http.response = NoResponse
    /\ \A key \in RequestKeys :
          Dispatch(http.registry, key) \in
              { NotFound } \cup { HandlerResponse(h) : h \in RouteHandlers }
    /\ DistinctKeys(http.regLog) =>
          \A f \in Permutations(Len(http.regLog)) : \A key \in RequestKeys :
              Dispatch(http.registry, key) =
                  ExpectedResponse([i \in 1..Len(http.regLog) |-> http.regLog[f[i]]], key)

C15_Witness ==
    /\ http.request = {<< "/health", "GET" >>}
    /\ http.response.status = "ok"
    /\ Len(http.regLog) >= 2
    /\ DistinctKeys(http.regLog)

=============================================================================
